---- MODULE Spec2Model ----
(***************************************************************************)
(* Model of examples/multi_agent_collaboration/sales_advisor_agent/main.py *)
(* : one run of main(args).  main is a straight-line script of blocking    *)
(* calls to the agent library and the knowledge-base helper; every call    *)
(* either returns or raises.  The model records the calls issued, the      *)
(* objects constructed and the lines printed, in program order.            *)
(***************************************************************************)
EXTENDS Naturals, Sequences, FiniteSets

VARIABLES
    args,                    \* the parsed command line (argparse Namespace)
    pc,                      \* position of the run inside main
    step,                    \* index inside a block of repeated statements
    force_recreate_default,  \* Agent class attribute set by set_force_recreate_default
    calls,                   \* external calls issued so far: [op, arg]
    out,                     \* lines printed to standard output
    tasks,                   \* Task objects constructed so far
    agents,                  \* worker Agent objects constructed so far
    supervisor,              \* SupervisorAgent objects constructed so far
    invocations,             \* invoke_with_tasks calls, with their arguments
    failed,                  \* the call that raised, or "none"
    exc                      \* class of the exception the invocation raised, or "none"

vars == <<args, pc, step, force_recreate_default, calls, out, tasks, agents,
          supervisor, invocations, failed, exc>>

-----------------------------------------------------------------------------
(* Inputs *)

\* number of distinct uuid4 values the run can draw
MaxUuid == 2

\* values of --recreate_agents: the two documented ones, and the spelling
\* the option's own help text uses ("False if reusing existing agents.")
RecreateValues == {"true", "false", "False"}

\* values of --clean_up
CleanUpValues == {"true", "false", "True"}

TraceLevels == {"core", "outline", "all"}

CompanyNames == {"acme", "globex"}

IterationValues == {"1", "2"}

\* classes of what a raising call can raise: a subclass of Exception, or a
\* BaseException outside Exception (KeyboardInterrupt, SystemExit)
ExceptionKinds == {"Exception", "BaseException"}

-----------------------------------------------------------------------------
(* Names fixed by the script *)

kb_name == "financial-advisor-kb"

SupervisorName == "financial_advisor"

\* faulty variant: the last deletion is missing
CleanupAgents_Short ==
    <<"financial_advisor", "financial_internal_analyst", "financial_external_analyst">>

\* the agents deleted by the clean-up branch, in statement order (lines 50-53)
CleanupAgents ==
    <<"financial_advisor", "financial_internal_analyst",
      "financial_external_analyst", "formatted_report_writer">>

\* the Task objects, in construction order
TaskNames ==
    <<"finacial_extract_all_task", "finacial_get_external_data_task",
      "final_report_output_task">>

\* faulty variant: the first two workers are built in the other order
WorkerNames_Swapped ==
    <<"financial_external_analyst", "financial_internal_analyst",
      "formatted_report_writer">>

\* the worker Agent objects, in construction order (lines 147-152)
WorkerNames ==
    <<"financial_internal_analyst", "financial_external_analyst",
      "formatted_report_writer">>

\* tools=[web_search_tool, set_value_for_key, get_key_value]
Tools == <<"web_search", "set_value_for_key", "get_key_value">>

-----------------------------------------------------------------------------
(* The script's conditions *)

\* if args.recreate_agents == "true":   (knowledge base sync)
ShouldSync(r) == r = "true"

\* faulty variant: the else branch of line 46 is never taken
ForceRecreate_Never(r) == FALSE

\* if args.recreate_agents == "false": ... else: (force recreate + delete)
ForceRecreate(r) == r # "false"

\* faulty variant: the clean-up branch is never taken
IsCleanUp_Never(c) == FALSE

\* if args.clean_up == "true":
IsCleanUp(c) == c = "true"

\* faulty variant: line 160 tests against "true", as line 38 does
ShouldInvoke_NotTrue(r) == r # "true"

\* if args.recreate_agents == "false":  (invoke the supervisor)
ShouldInvoke(r) == r = "false"

\* faulty variant: no handler around the invocation
Caught_Nothing(kind) == FALSE

\* except Exception as e:
Caught(kind) == kind = "Exception"

\* faulty variant: the exception is swallowed and the next statement runs
OnUncaught_Continue(next) == next

\* An exception that no handler of main catches leaves main: the run ends
\* there, whatever statement would have come next.
OnUncaught(next) == "crashed"

-----------------------------------------------------------------------------
(* Helpers *)

Call(op, arg) == [op |-> op, arg |-> arg]

\* where the run goes after the recreate block (lines 44-48)
CleanUpBranch == IF IsCleanUp(args.clean_up) THEN "clean_up" ELSE "load_tasks"

\* An external call that raised outside any try block.
Raise(op, arg, next) ==
    /\ calls' = Append(calls, Call(op, arg))
    /\ pc' = OnUncaught(next)
    /\ failed' = op

-----------------------------------------------------------------------------
Init ==
    /\ args \in [recreate_agents : RecreateValues,
                 clean_up : CleanUpValues,
                 trace_level : TraceLevels,
                 company_name : CompanyNames,
                 iterations : IterationValues]
    /\ pc = "start"
    /\ step = 1
    /\ force_recreate_default \in BOOLEAN
    /\ calls = <<>>
    /\ out = <<>>
    /\ tasks = <<>>
    /\ agents = <<>>
    /\ supervisor = <<>>
    /\ invocations = <<>>
    /\ failed = "none"
    /\ exc = "none"

-----------------------------------------------------------------------------
(* Steps of main *)

\* lines 25-36
CreateOrRetrieveKnowledgeBase ==
    /\ pc = "start"
    /\ LET next == IF ShouldSync(args.recreate_agents) THEN "sync" ELSE "force"
       IN \E ok \in BOOLEAN :
            IF ok
            THEN /\ calls' = Append(calls, Call("create_or_retrieve_knowledge_base", kb_name))
                 /\ out' = out \o <<"Acquiring knowledge base", "KB name">>
                 /\ pc' = next
                 /\ UNCHANGED failed
            ELSE /\ Raise("create_or_retrieve_knowledge_base", kb_name, next)
                 /\ out' = Append(out, "Acquiring knowledge base")
    /\ UNCHANGED <<args, step, force_recreate_default, tasks, agents, supervisor,
                   invocations, exc>>

\* lines 38-41
SynchronizeData ==
    /\ pc = "sync"
    /\ \E ok \in BOOLEAN :
         IF ok
         THEN /\ calls' = Append(calls, Call("synchronize_data", kb_name))
              /\ out' = Append(out, "KB sync completed")
              /\ pc' = "force"
              /\ UNCHANGED failed
         ELSE /\ Raise("synchronize_data", kb_name, "force")
              /\ UNCHANGED out
    /\ UNCHANGED <<args, step, force_recreate_default, tasks, agents, supervisor,
                   invocations, exc>>

\* faulty variant: line 48 is missing
SetForceRecreateDefault_NoDelete ==
    /\ pc = "force"
    /\ force_recreate_default' = ForceRecreate(args.recreate_agents)
    /\ calls' = Append(calls, Call("set_force_recreate_default",
                                   IF ForceRecreate(args.recreate_agents)
                                   THEN "True" ELSE "False"))
    /\ pc' = CleanUpBranch
    /\ UNCHANGED <<args, step, out, tasks, agents, supervisor, invocations, failed, exc>>

\* lines 44-47
SetForceRecreateDefault ==
    /\ pc = "force"
    /\ force_recreate_default' = ForceRecreate(args.recreate_agents)
    /\ calls' = Append(calls, Call("set_force_recreate_default",
                                   IF ForceRecreate(args.recreate_agents)
                                   THEN "True" ELSE "False"))
    /\ pc' = IF ForceRecreate(args.recreate_agents)
             THEN "delete_supervisor" ELSE CleanUpBranch
    /\ UNCHANGED <<args, step, out, tasks, agents, supervisor, invocations, failed, exc>>

\* line 48
DeleteSupervisorByName ==
    /\ pc = "delete_supervisor"
    /\ \E ok \in BOOLEAN :
         IF ok
         THEN /\ calls' = Append(calls, Call("delete_by_name", SupervisorName))
              /\ pc' = CleanUpBranch
              /\ UNCHANGED failed
         ELSE Raise("delete_by_name", SupervisorName, CleanUpBranch)
    /\ UNCHANGED <<args, step, force_recreate_default, out, tasks, agents,
                   supervisor, invocations, exc>>

\* lines 50-53
CleanUpDeleteAgent ==
    /\ pc = "clean_up"
    /\ step \in 1..Len(CleanupAgents)
    /\ LET last == step = Len(CleanupAgents)
           next == IF last THEN "delete_kb" ELSE "clean_up"
       IN \E ok \in BOOLEAN :
            IF ok
            THEN /\ calls' = Append(calls, Call("delete_by_name", CleanupAgents[step]))
                 /\ pc' = next
                 /\ step' = IF last THEN 1 ELSE step + 1
                 /\ UNCHANGED failed
            ELSE /\ Raise("delete_by_name", CleanupAgents[step], next)
                 /\ step' = IF pc' = "crashed" THEN step
                            ELSE IF last THEN 1 ELSE step + 1
    /\ UNCHANGED <<args, force_recreate_default, out, tasks, agents, supervisor,
                   invocations, exc>>

\* line 54
DeleteKb ==
    /\ pc = "delete_kb"
    /\ \E ok \in BOOLEAN :
         IF ok
         THEN /\ calls' = Append(calls, Call("delete_kb", kb_name))
              /\ pc' = "done"
              /\ UNCHANGED failed
         ELSE Raise("delete_kb", kb_name, "done")
    /\ UNCHANGED <<args, step, force_recreate_default, out, tasks, agents,
                   supervisor, invocations, exc>>

\* lines 57-63
LoadTaskYaml ==
    /\ pc = "load_tasks"
    /\ \E ok \in BOOLEAN :
         IF ok
         THEN /\ calls' = Append(calls, Call("yaml_load", "tasks.yaml"))
              /\ pc' = "tasks"
              /\ UNCHANGED failed
         ELSE Raise("yaml_load", "tasks.yaml", "tasks")
    /\ UNCHANGED <<args, step, force_recreate_default, out, tasks, agents,
                   supervisor, invocations, exc>>

\* lines 65-67
ConstructTask ==
    /\ pc = "tasks"
    /\ step \in 1..Len(TaskNames)
    /\ LET last == step = Len(TaskNames)
           next == IF last THEN "load_agents" ELSE "tasks"
       IN \E ok \in BOOLEAN :
            IF ok
            THEN /\ calls' = Append(calls, Call("Task", TaskNames[step]))
                 /\ tasks' = Append(tasks,
                        [name |-> TaskNames[step],
                         company_name |-> args.company_name,
                         feedback_iteration_count |-> args.iterations])
                 /\ pc' = next
                 /\ step' = IF last THEN 1 ELSE step + 1
                 /\ UNCHANGED failed
            ELSE /\ Raise("Task", TaskNames[step], next)
                 /\ step' = IF pc' = "crashed" THEN step
                            ELSE IF last THEN 1 ELSE step + 1
                 /\ UNCHANGED tasks
    /\ UNCHANGED <<args, force_recreate_default, out, agents, supervisor, invocations, exc>>

\* lines 144-145
LoadAgentYaml ==
    /\ pc = "load_agents"
    /\ \E ok \in BOOLEAN :
         IF ok
         THEN /\ calls' = Append(calls, Call("yaml_load", "agents.yaml"))
              /\ pc' = "agents"
              /\ UNCHANGED failed
         ELSE Raise("yaml_load", "agents.yaml", "agents")
    /\ UNCHANGED <<args, step, force_recreate_default, out, tasks, agents,
                   supervisor, invocations, exc>>

\* lines 147-152
ConstructAgent ==
    /\ pc = "agents"
    /\ step \in 1..Len(WorkerNames)
    /\ LET last == step = Len(WorkerNames)
           next == IF last THEN "supervisor" ELSE "agents"
       IN \E ok \in BOOLEAN :
            IF ok
            THEN /\ calls' = Append(calls, Call("Agent", WorkerNames[step]))
                 /\ agents' = Append(agents,
                        [name |-> WorkerNames[step],
                         tools |-> Tools,
                         force_recreate |-> force_recreate_default])
                 /\ pc' = next
                 /\ step' = IF last THEN 1 ELSE step + 1
                 /\ UNCHANGED failed
            ELSE /\ Raise("Agent", WorkerNames[step], next)
                 /\ step' = IF pc' = "crashed" THEN step
                            ELSE IF last THEN 1 ELSE step + 1
                 /\ UNCHANGED agents
    /\ UNCHANGED <<args, force_recreate_default, out, tasks, supervisor, invocations, exc>>

\* lines 154-160 and 190-191
ConstructSupervisor ==
    /\ pc = "supervisor"
    /\ LET next == IF ShouldInvoke(args.recreate_agents) THEN "invoke" ELSE "done"
           tail == IF ShouldInvoke(args.recreate_agents) THEN <<>>
                   ELSE <<"Recreated agents.">>
       IN \E ok \in BOOLEAN :
            IF ok
            THEN /\ calls' = Append(calls, Call("SupervisorAgent", SupervisorName))
                 /\ supervisor' = Append(supervisor,
                        [name |-> SupervisorName,
                         collaborators |-> [k \in DOMAIN agents |-> agents[k].name],
                         force_recreate |-> force_recreate_default])
                 /\ out' = out \o <<"Creating supervisor agent">> \o tail
                 /\ pc' = next
                 /\ UNCHANGED failed
            ELSE /\ Raise("SupervisorAgent", SupervisorName, next)
                 /\ out' = Append(out, "Creating supervisor agent")
                 /\ UNCHANGED supervisor
    /\ UNCHANGED <<args, step, force_recreate_default, tasks, agents, invocations, exc>>

\* lines 161-181: the call is issued and blocks
InvokeWithTasks ==
    /\ pc = "invoke"
    /\ \E u \in 1..MaxUuid :
         invocations' = Append(invocations,
             [supervisor |-> supervisor[Len(supervisor)].name,
              tasks |-> [k \in DOMAIN tasks |-> tasks[k].name],
              table_name |-> u,
              processing_type |-> "sequential",
              enable_trace |-> TRUE,
              trace_level |-> args.trace_level])
    /\ calls' = Append(calls, Call("invoke_with_tasks", SupervisorName))
    /\ out' = out \o <<"Invoking supervisor agent", "time before call">>
    /\ pc' = "invoking"
    /\ UNCHANGED <<args, step, force_recreate_default, tasks, agents, supervisor, failed,
                   exc>>

\* line 182: the call returned
InvokeReturns ==
    /\ pc = "invoking"
    /\ out' = Append(out, "result")
    /\ pc' = "timing"
    /\ UNCHANGED <<args, step, force_recreate_default, calls, tasks, agents,
                   supervisor, invocations, failed, exc>>

\* lines 183-186: the call raised
InvokeRaises ==
    /\ pc = "invoking"
    /\ \E kind \in ExceptionKinds :
         /\ exc' = kind
         /\ IF Caught(kind)
            THEN /\ out' = out \o <<"error", "traceback">>
                 /\ pc' = "timing"
            ELSE /\ pc' = "crashed"
                 /\ UNCHANGED out
    /\ failed' = "invoke_with_tasks"
    /\ UNCHANGED <<args, step, force_recreate_default, calls, tasks, agents,
                   supervisor, invocations>>

\* faulty variant: line 189 is missing
ReportTime_Silent ==
    /\ pc = "timing"
    /\ pc' = "done"
    /\ UNCHANGED <<args, step, force_recreate_default, calls, out, tasks, agents,
                   supervisor, invocations, failed, exc>>

\* lines 188-189
ReportTime ==
    /\ pc = "timing"
    /\ out' = Append(out, "Time taken")
    /\ pc' = "done"
    /\ UNCHANGED <<args, step, force_recreate_default, calls, tasks, agents,
                   supervisor, invocations, failed, exc>>

Next ==
    \/ CreateOrRetrieveKnowledgeBase
    \/ SynchronizeData
    \/ SetForceRecreateDefault
    \/ DeleteSupervisorByName
    \/ CleanUpDeleteAgent
    \/ DeleteKb
    \/ LoadTaskYaml
    \/ ConstructTask
    \/ LoadAgentYaml
    \/ ConstructAgent
    \/ ConstructSupervisor
    \/ InvokeWithTasks
    \/ InvokeReturns
    \/ InvokeRaises
    \/ ReportTime

Spec == Init /\ [][Next]_vars

\* main is a single thread of blocking calls: a call that is pending comes
\* back (with a value or an exception) and the next statement runs.
FairSpec == Spec /\ WF_vars(Next)

-----------------------------------------------------------------------------
(* Library behaviour and command-line defaults *)

\* Agent(...) built while the class default force_recreate is True replaces
\* an existing agent of that name ("if recreating agents, force recreation").
RecreatedOnConstruct(a) == a.force_recreate

\* parser.add_argument("--recreate_agents", default='true')
DefaultRecreateAgents == "true"

\* parser.add_argument("--clean_up", default="false")
DefaultCleanUp == "false"

-----------------------------------------------------------------------------
(* Vocabulary of the properties *)

\* positions in calls of the calls of operation op
Ops(op) == {i \in DOMAIN calls : calls[i].op = op}

\* positions in calls of the deletions by name of agent a
Deleted(a) == {i \in DOMAIN calls : calls[i] = Call("delete_by_name", a)}

\* positions in out of the line l
Lines(l) == {i \in DOMAIN out : out[i] = l}

BuildOps == {"yaml_load", "Task", "Agent", "SupervisorAgent", "invoke_with_tasks"}

ConstructOps == {"Task", "Agent", "SupervisorAgent"}

Workers ==
    {"financial_internal_analyst", "financial_external_analyst", "formatted_report_writer"}

NormalEnd == pc = "done"

-----------------------------------------------------------------------------
(* C1 *)

\* C1 as stated: whatever the supervisor invocation raises is caught inside
\* main; it does not leave main, no result is printed, the invocation is not
\* repeated, and the run goes on to the timing report and the normal end.
C1_Original ==
    exc # "none" =>
        /\ pc \in {"timing", "done"}
        /\ Lines("result") = {}
        /\ Len(invocations) = 1

\* C1 amended: an exception derived from Exception raised by the supervisor
\* invocation is caught inside main: the run is never left at the invocation,
\* the error and the traceback are printed and no result is, the invocation
\* is issued once only, and the run reaches the normal end of main.
C1_Amended ==
    /\ [](exc = "Exception" =>
            /\ pc \in {"timing", "done"}
            /\ Lines("result") = {}
            /\ Cardinality(Lines("error")) = 1
            /\ Len(invocations) = 1
            /\ Cardinality(Ops("invoke_with_tasks")) = 1)
    /\ (exc = "Exception" ~> NormalEnd)

C1_Witness == exc = "Exception" /\ NormalEnd /\ failed = "invoke_with_tasks"

-----------------------------------------------------------------------------
(* C2 *)

\* C2 as stated: a run that has issued the supervisor invocation and has
\* ended has printed exactly one 'Time taken' line, whether the invocation
\* returned or raised.
C2_Original ==
    (pc \in {"done", "crashed"} /\ invocations # <<>>) =>
        Cardinality(Lines("Time taken")) = 1

\* C2 amended: when the invocation returns a result or raises an exception
\* derived from Exception, exactly one 'Time taken' line follows; it is the
\* last line of the run, after the 'time before call' line and after the
\* result or the error output.  No run prints the line twice.
C2_Amended ==
    /\ [](/\ Cardinality(Lines("Time taken")) <= 1
          /\ \A t \in Lines("Time taken") :
                /\ t = Len(out)
                /\ \E b \in Lines("time before call") :
                     \E r \in Lines("result") \cup Lines("traceback") :
                        b < r /\ r < t
          /\ (NormalEnd /\ invocations # <<>>) =>
                Cardinality(Lines("Time taken")) = 1)
    /\ ((invocations # <<>> /\ (Lines("result") # {} \/ exc = "Exception"))
            ~> (NormalEnd /\ Cardinality(Lines("Time taken")) = 1))

C2_Witness ==
    /\ NormalEnd
    /\ exc = "Exception"
    /\ Lines("Time taken") = {Len(out)}

-----------------------------------------------------------------------------
(* C3 *)

\* C3: with clean_up "true", whatever the other flags, no Task, Agent or
\* SupervisorAgent is constructed and the supervisor is never invoked, and a
\* run that reaches the end of main has issued, as its last five calls, the
\* deletions of financial_advisor, financial_internal_analyst,
\* financial_external_analyst and formatted_report_writer and then the
\* deletion of the knowledge base financial-advisor-kb.
C3_CleanUpDeletes ==
    args.clean_up = "true" =>
        /\ tasks = <<>> /\ agents = <<>> /\ supervisor = <<>> /\ invocations = <<>>
        /\ \A i \in DOMAIN calls : calls[i].op \notin BuildOps
        /\ NormalEnd =>
             /\ Len(calls) >= 5
             /\ SubSeq(calls, Len(calls) - 4, Len(calls)) =
                  << Call("delete_by_name", "financial_advisor"),
                     Call("delete_by_name", "financial_internal_analyst"),
                     Call("delete_by_name", "financial_external_analyst"),
                     Call("delete_by_name", "formatted_report_writer"),
                     Call("delete_kb", "financial-advisor-kb") >>

C3_Witness ==
    /\ NormalEnd
    /\ args.clean_up = "true"
    /\ Ops("delete_kb") # {}
    /\ Deleted("formatted_report_writer") # {}

-----------------------------------------------------------------------------
(* C4 *)

RecreateRun == args.recreate_agents # "false" /\ args.clean_up # "true"

-----------------------------------------------------------------------------
(* C5 *)

\* C5: the supervisor is invoked at most once; it is invoked only when
\* clean_up is not "true" and recreate_agents is "false", and every such run
\* that reaches the end of main has invoked it; a run without clean-up and
\* with any other recreate_agents constructs the workers and the supervisor,
\* prints 'Recreated agents.' last, and has neither an invocation nor a
\* 'Time taken' line; a run with the default flags never invokes.
C5_InvokedIffReuse ==
    /\ Len(invocations) <= 1
    /\ Cardinality(Ops("invoke_with_tasks")) = Len(invocations)
    /\ invocations # <<>> =>
          args.clean_up # "true" /\ args.recreate_agents = "false"
    /\ (NormalEnd /\ args.clean_up # "true" /\ args.recreate_agents = "false") =>
          Len(invocations) = 1
    /\ (NormalEnd /\ args.clean_up # "true" /\ args.recreate_agents # "false") =>
          /\ Len(agents) = 3
          /\ Len(supervisor) = 1
          /\ out # <<>> /\ out[Len(out)] = "Recreated agents."
    /\ args.recreate_agents # "false" =>
          /\ invocations = <<>>
          /\ Lines("Time taken") = {}
          /\ Lines("time before call") = {}
    /\ Lines("Recreated agents.") # {} =>
          args.clean_up # "true" /\ args.recreate_agents # "false"
    /\ (args.recreate_agents = DefaultRecreateAgents /\ args.clean_up = DefaultCleanUp) =>
          invocations = <<>>

C5_Witness ==
    /\ NormalEnd
    /\ Len(invocations) = 1
    /\ args.recreate_agents = "false"
    /\ args.clean_up = "false"

-----------------------------------------------------------------------------
(* C6 *)

\* C6 as stated: in a run with clean-up requested the only external
\* operations are the deletions of the named agents and of the knowledge
\* base, and no resource is deleted more than once in a run.
C6_Original ==
    /\ args.clean_up = "true" =>
          \A i \in DOMAIN calls : calls[i].op \in {"delete_by_name", "delete_kb"}
    /\ \A a \in Workers \cup {"financial_advisor"} : Cardinality(Deleted(a)) <= 1
    /\ Cardinality(Ops("delete_kb")) <= 1

\* C6 amended: the if/else on clean_up separates the four agent deletions and
\* the knowledge-base deletion from the build steps (loading YAML,
\* constructing Task, Agent and SupervisorAgent, invoking): a clean-up run
\* performs no build step, a run without clean-up deletes no worker and no
\* knowledge base.  Create-or-retrieve of the knowledge base is the first
\* call of every run, and synchronization, the force-recreate setting and the
\* recreate-time deletion of the supervisor depend on recreate_agents only,
\* so they occur in clean-up runs too.  No worker and no knowledge base is
\* deleted more than once; financial_advisor is deleted twice in a clean-up
\* run whose recreate_agents is not "false", and at most once otherwise.
C6_Amended ==
    /\ args.clean_up = "true" =>
          \A i \in DOMAIN calls : calls[i].op \notin BuildOps
    /\ args.clean_up # "true" =>
          /\ Ops("delete_kb") = {}
          /\ \A w \in Workers : Deleted(w) = {}
    /\ calls # <<>> => calls[1].op = "create_or_retrieve_knowledge_base"
    /\ \A w \in Workers : Cardinality(Deleted(w)) <= 1
    /\ Cardinality(Ops("delete_kb")) <= 1
    /\ Cardinality(Deleted("financial_advisor")) <=
          (IF args.clean_up = "true" /\ args.recreate_agents # "false" THEN 2 ELSE 1)
    /\ (NormalEnd /\ args.clean_up = "true") =>
          /\ Cardinality(Ops("create_or_retrieve_knowledge_base")) = 1
          /\ Cardinality(Ops("set_force_recreate_default")) = 1
          /\ (Ops("synchronize_data") # {}) = (args.recreate_agents = "true")
          /\ Cardinality(Deleted("financial_advisor")) =
                (IF args.recreate_agents # "false" THEN 2 ELSE 1)

C6_Witness ==
    /\ NormalEnd
    /\ args.clean_up = "true"
    /\ args.recreate_agents = "true"
    /\ Ops("synchronize_data") # {}
    /\ Cardinality(Deleted("financial_advisor")) = 2

-----------------------------------------------------------------------------
(* C7 *)

\* C7: when agents are recreated (recreate_agents is not "false"), every
\* deletion of financial_advisor comes after the force-recreate default was
\* set to True, every construction of a Task, Agent or SupervisorAgent comes
\* after such a deletion, and a knowledge-base synchronization comes after
\* create-or-retrieve and before every deletion of financial_advisor.
C7_DeleteSupervisorFirst ==
    args.recreate_agents # "false" =>
        /\ \A d \in Deleted("financial_advisor") :
              \E f \in Ops("set_force_recreate_default") :
                 f < d /\ calls[f].arg = "True"
        /\ \A k \in DOMAIN calls :
              calls[k].op \in ConstructOps =>
                 \E d \in Deleted("financial_advisor") : d < k
        /\ \A s \in Ops("synchronize_data") :
              /\ \E c \in Ops("create_or_retrieve_knowledge_base") : c < s
              /\ \A d \in Deleted("financial_advisor") : s < d
        /\ (NormalEnd \/ tasks # <<>>) => Deleted("financial_advisor") # {}

C7_Witness ==
    /\ NormalEnd
    /\ args.recreate_agents = "true"
    /\ args.clean_up # "true"
    /\ Ops("synchronize_data") # {}
    /\ Len(supervisor) = 1
    /\ Len(tasks) = 3

-----------------------------------------------------------------------------
(* C8 *)

\* C8: when the supervisor is invoked, the three workers have been
\* constructed in the order internal analyst, external analyst, report
\* writer, then the supervisor over exactly those three in that order, and
\* only then the invocation is issued; it is given the three tasks in the
\* order finacial_extract_all_task, finacial_get_external_data_task,
\* final_report_output_task, processing type 'sequential', and the one table
\* name of the run.
C8_InvocationArguments ==
    invocations # <<>> =>
        /\ Len(invocations) = 1
        /\ [k \in DOMAIN agents |-> agents[k].name] =
              <<"financial_internal_analyst", "financial_external_analyst",
                "formatted_report_writer">>
        /\ Len(supervisor) = 1
        /\ supervisor[1].name = "financial_advisor"
        /\ supervisor[1].collaborators =
              <<"financial_internal_analyst", "financial_external_analyst",
                "formatted_report_writer">>
        /\ \A v \in Ops("invoke_with_tasks") :
              /\ \A a \in Ops("Agent") \cup Ops("SupervisorAgent") : a < v
              /\ Cardinality(Ops("Agent")) = 3
              /\ \A a \in Ops("Agent") : \A s \in Ops("SupervisorAgent") : a < s
        /\ invocations[1].supervisor = "financial_advisor"
        /\ invocations[1].tasks =
              <<"finacial_extract_all_task", "finacial_get_external_data_task",
                "final_report_output_task">>
        /\ invocations[1].processing_type = "sequential"
        /\ invocations[1].trace_level = args.trace_level
        /\ \A k \in DOMAIN tasks :
              /\ tasks[k].company_name = args.company_name
              /\ tasks[k].feedback_iteration_count = args.iterations

C8_Witness ==
    /\ NormalEnd
    /\ Len(invocations) = 1
    /\ Lines("result") # {}

-----------------------------------------------------------------------------
(* C9 *)

OutsideTry ==
    {"create_or_retrieve_knowledge_base", "synchronize_data", "delete_by_name",
     "delete_kb", "yaml_load", "Task", "Agent", "SupervisorAgent"}

\* C9: an exception raised by a step other than the supervisor invocation
\* (knowledge-base create-or-retrieve or synchronization, a deletion, loading
\* a YAML file, constructing a Task, Agent or SupervisorAgent) is not caught:
\* the run ends abnormally at that call, which stays the last call issued,
\* nothing changes afterwards, and no 'Time taken' line is printed.
C9_UncaughtOutsideTry ==
    /\ [](failed \in OutsideTry =>
            /\ pc = "crashed"
            /\ calls # <<>> /\ calls[Len(calls)].op = failed
            /\ invocations = <<>>
            /\ Lines("Time taken") = {})
    /\ [][(failed \in OutsideTry) => (vars' = vars)]_vars

C9_Witness ==
    /\ failed = "Agent"
    /\ pc = "crashed"
    /\ Len(agents) = 1

-----------------------------------------------------------------------------
(* C10 *)

\* C10: for every value of recreate_agents, a run without clean-up that ends
\* normally has synchronized the knowledge base if and only if it set the
\* force-recreate default to True and deleted the supervisor by name, and
\* that if and only if it did not invoke the supervisor.
C10_Claim ==
    (NormalEnd /\ args.clean_up # "true") =>
        /\ (Ops("synchronize_data") # {}) =
              (force_recreate_default /\ Deleted("financial_advisor") # {})
        /\ (force_recreate_default /\ Deleted("financial_advisor") # {}) =
              (invocations = <<>>)

====
